---- MODULE Spec2Model ----
(***************************************************************************)
(* A model of pyTimeGrapher's WatchAnalyzer (src/pyTimeGrapher.py): the    *)
(* control surface (reset_data, start_stream, stop_stream), the capture    *)
(* callback and the processing task(s) started by start_stream.            *)
(*                                                                         *)
(* Atomicity.  The control operations run on the Tk thread, the capture    *)
(* callback on PortAudio's thread and _process_data on a thread of its    *)
(* own.  CPython lets threads switch at calls and at loop back-edges, so   *)
(* a step of the model is a run of statements between two such points;    *)
(* where two neighbouring runs are merged into one step the step's        *)
(* comment says so.                                                        *)
(*                                                                         *)
(* Spec is the whole program, bounded by the Max... definitions.           *)
(* SpecClassify runs lines 138-155 alone, on two ticks that lie many       *)
(* blocks apart, at the distances where the classification changes.        *)
(* SpecSession runs the same lines behind a session of up to MaxHistory    *)
(* recorded intervals, where the rate estimator reports.                   *)
(***************************************************************************)
EXTENDS Integers, Sequences, FiniteSets, TLC

(***************************************************************************)
(* Program constants (lines 14-19, 31-38).                                 *)
(***************************************************************************)
LOCKOUT_MS == 80
SAMPLE_RATE == 44100
CHUNK_SIZE == 2048
\* int(44100 * (LOCKOUT_MS / 1000.0)) = 3528
LOCKOUT_SAMPLES == (44100 * LOCKOUT_MS) \div 1000
NO_TRIGGER == -999999

(***************************************************************************)
(* IEEE-754 binary64 arithmetic, as Python's float implements it.          *)
(* A float is [neg, mag]: mag is the magnitude in base 2^LimbBits, one     *)
(* integer limb followed by FracLimbs fractional limbs, most significant   *)
(* first.  Every double the program computes from a sample index is a      *)
(* multiple of 2^-(LimbBits * FracLimbs), so the grid holds it exactly;    *)
(* Round53 keeps the 53 significant bits of a double.                      *)
(***************************************************************************)
MantBits == 53
LimbBits == 14
FracLimbs == 5
LimbBase == 2 ^ LimbBits
Limbs == 1 + FracLimbs
Width == LimbBits * Limbs

ZeroMag == [i \in 1..Limbs |-> 0]

\* the k fractional limbs of r / d (0 <= r < d), by long division
RECURSIVE FracDigits(_, _, _)
FracDigits(r, d, k) ==
    IF k = 0 THEN <<>>
    ELSE <<(r * LimbBase) \div d>> \o FracDigits((r * LimbBase) % d, d, k - 1)

\* what the long division of r by d leaves after k limbs
RECURSIVE FracRest(_, _, _)
FracRest(r, d, k) ==
    IF k = 0 THEN r ELSE FracRest((r * LimbBase) % d, d, k - 1)

\* the number of bits of x (1 <= x < LimbBase)
BitLen(x) == CHOOSE k \in 1..LimbBits : 2 ^ (k - 1) <= x /\ x < 2 ^ k

\* the limbs j.. of a, read as a number, are below the limbs j.. of b
SuffixLess(a, b, j) ==
    \E k \in j..Limbs : a[k] < b[k] /\ \A i \in j..(k - 1) : a[i] = b[i]

MagLess(a, b) == SuffixLess(a, b, 1)

\* mag + unit * LimbBase^(Limbs - q), for a mag whose limb q is a multiple
\* of unit and whose limbs below q are 0
AddUlp(mag, q, unit) ==
    IF mag[q] + unit < LimbBase
    THEN [mag EXCEPT ![q] = @ + unit]
    ELSE LET z == CHOOSE i \in 1..(q - 1) :
                      /\ mag[i] < LimbBase - 1
                      /\ \A h \in (i + 1)..(q - 1) : mag[h] = LimbBase - 1
         IN  [i \in 1..Limbs |-> IF i < z THEN mag[i]
                                 ELSE IF i = z THEN mag[z] + 1 ELSE 0]

\* round-to-nearest, ties-to-even, to MantBits significant bits; `sticky`
\* says that the exact value has non-zero bits below the grid.  Bits are
\* counted from 1, the most significant bit of limb 1.
Round53(mag, sticky) ==
    IF mag = ZeroMag THEN mag
    ELSE LET top  == CHOOSE i \in 1..Limbs :
                         mag[i] # 0 /\ \A h \in 1..(i - 1) : mag[h] = 0
             lead == (top - 1) * LimbBits + (LimbBits - BitLen(mag[top])) + 1
             last == lead + MantBits - 1
         IN  IF last >= Width THEN mag
             ELSE LET q     == ((last - 1) \div LimbBits) + 1
                      low   == LimbBits - 1 - ((last - 1) % LimbBits)
                      unit  == 2 ^ low
                      below == mag[q] % unit
                      tail  == \E i \in (q + 1)..Limbs : mag[i] # 0
                      guard == IF low > 0 THEN below \div (unit \div 2)
                               ELSE mag[q + 1] \div (LimbBase \div 2)
                      rest  == IF low > 0
                               THEN below % (unit \div 2) # 0 \/ tail \/ sticky
                               ELSE \/ mag[q + 1] % (LimbBase \div 2) # 0
                                    \/ \E i \in (q + 2)..Limbs : mag[i] # 0
                                    \/ sticky
                      odd   == (mag[q] \div unit) % 2 = 1
                      trunc == [i \in 1..Limbs |->
                                   IF i < q THEN mag[i]
                                   ELSE IF i = q THEN mag[q] - below ELSE 0]
                  IN  IF guard = 1 /\ (rest \/ odd)
                      THEN AddUlp(trunc, q, unit)
                      ELSE trunc

\* a - b on magnitudes, a >= b: limb i borrows when the limbs below it do
\* not suffice
SubMag(a, b) ==
    [i \in 1..Limbs |->
        (a[i] - b[i] - (IF SuffixLess(a, b, i + 1) THEN 1 ELSE 0) + LimbBase)
            % LimbBase]

FZero == [neg |-> FALSE, mag |-> ZeroMag]

\* n / d for integers n >= 0, d > 0 (Python's true division, correctly rounded;
\* also the value of a decimal literal n/d)
FDiv(n, d) ==
    LET exact == <<n \div d>> \o FracDigits(n % d, d, FracLimbs)
    IN  [neg |-> FALSE,
         mag |-> Round53([i \in 1..Limbs |-> exact[i]],
                         FracRest(n % d, d, FracLimbs) # 0)]

\* x - y for non-negative floats x, y
FSub(x, y) ==
    IF MagLess(x.mag, y.mag)
    THEN [neg |-> TRUE,  mag |-> Round53(SubMag(y.mag, x.mag), FALSE)]
    ELSE [neg |-> FALSE, mag |-> Round53(SubMag(x.mag, y.mag), FALSE)]

\* x < y
FLess(x, y) ==
    IF x.neg /\ ~y.neg THEN x.mag # ZeroMag \/ y.mag # ZeroMag
    ELSE IF ~x.neg /\ y.neg THEN FALSE
    ELSE IF x.neg THEN MagLess(y.mag, x.mag)
    ELSE MagLess(x.mag, y.mag)

\* the literals of lines 144 and 145
NOISE_BELOW == FDiv(9, 100)
MISSED_ABOVE == FDiv(22, 10)

(***************************************************************************)
(* Bounds of the model.                                                    *)
(***************************************************************************)
\* blocks the capture callback delivers in one run
MaxBlocks == 2
\* calls of reset_data, start_stream (past its `if self.running` test) and
\* stop_stream in one run
MaxControlCalls == 3
\* threads start_stream may start in one run
MaxTasks == 2
\* offsets of one block at which the envelope is above 0
MaxPeaks == 2

(***************************************************************************)
(* Inputs.  A block is its length and the set of sample values it holds.   *)
(* The capture callback delivers CHUNK_SIZE frames (line 78); the empty    *)
(* block is the malformed delivery of the error-handling claims.           *)
(***************************************************************************)
INT16_MIN == -32768
SampleSets == {{0}, {INT16_MIN, 1}}
EmptyBlock == [len |-> 0, vals |-> {}]
Blocks == {EmptyBlock} \cup {[len |-> CHUNK_SIZE, vals |-> v] : v \in SampleSets}
NoBlock == [len |-> 0, vals |-> {0}]

\* the offsets of a block at which the model lets the envelope differ from 0,
\* and the value it may take there
EnvOffsets == {0, 1, 1600, 2047}
ENV_PEAK == 20000
\* positions of the threshold slider (line 276: 5..95, initially 40)
ThreshValues == {5, 95}

Max(S) == CHOOSE x \in S : \A y \in S : y <= x

RECURSIVE SortedSeq(_)
SortedSeq(S) == IF S = {} THEN <<>>
                ELSE LET m == CHOOSE x \in S : \A y \in S : x <= y
                     IN  <<m>> \o SortedSeq(S \ {m})

(***************************************************************************)
(* 1. AGC (lines 111-116).  The gain is held in units of 1/GAIN_SCALE.     *)
(***************************************************************************)
GAIN_SCALE == 10000
TARGET_PEAK == 20000
GAIN_INITIAL == 50 * GAIN_SCALE
GAIN_MIN == 1 * GAIN_SCALE
GAIN_MAX == 300 * GAIN_SCALE

\* np.abs on int16: -32768 has no positive counterpart and stays -32768
Abs16(x) == IF x = INT16_MIN THEN INT16_MIN ELSE IF x < 0 THEN -x ELSE x

\* line 112: np.max(np.abs(raw_data))
ChunkMax(block) == Max({Abs16(x) : x \in block.vals})

\* lines 114-115: the exponential moving average
Ema(gain, chunk_max) ==
    (gain * 98 + ((TARGET_PEAK * GAIN_SCALE) \div chunk_max) * 2) \div 100

\* the update of line 115 with line 116 left out
ClampDropped(gain) == gain

\* line 116: max(1.0, min(gain, 300.0))
Clamp(gain) == IF gain > GAIN_MAX THEN GAIN_MAX
               ELSE IF gain < GAIN_MIN THEN GAIN_MIN ELSE gain

\* lines 113-116
AgcUpdate(gain, chunk_max) ==
    IF chunk_max > 0 THEN Clamp(Ema(gain, chunk_max)) ELSE gain

(***************************************************************************)
(* 2./3. Filter, envelope and threshold (lines 118-125).  An all-zero      *)
(* block filters to an all-zero envelope; any other block may give any    *)
(* envelope.                                                               *)
(***************************************************************************)
\* lines 118-121 with a filter that rings on from one block into the next
EnvelopesAny(block) ==
    {e \in [EnvOffsets -> {0, ENV_PEAK}] :
         Cardinality({o \in EnvOffsets : e[o] # 0}) <= MaxPeaks}

Envelopes(block) ==
    IF block.vals = {0} THEN {[o \in EnvOffsets |-> 0]}
    ELSE {e \in [EnvOffsets -> {0, ENV_PEAK}] :
              Cardinality({o \in EnvOffsets : e[o] # 0}) <= MaxPeaks}

\* line 133 with line 125: sample > (threshold_percent / 100.0) * 32768
AboveThreshold(sample, percent) == sample * 100 > percent * 32768

\* line 130 with the lockout taken in milliseconds instead of samples
LockedOutMs(global_idx, last_trigger) ==
    global_idx - last_trigger < LOCKOUT_MS

\* line 130
LockedOut(global_idx, last_trigger) ==
    global_idx - last_trigger < LOCKOUT_SAMPLES

(***************************************************************************)
(* Interval classifier (lines 143-145).                                    *)
(***************************************************************************)
\* lines 143-145 with the test of line 144 left out
ClassifyNoNoise(delta) ==
    IF FLess(MISSED_ABOVE, delta) THEN "MISSED" ELSE "OK"

Classify(delta) ==
    IF FLess(delta, NOISE_BELOW) THEN "NOISE"
    ELSE IF FLess(MISSED_ABOVE, delta) THEN "MISSED"
    ELSE "OK"

(***************************************************************************)
(* State.                                                                  *)
(***************************************************************************)
VARIABLES
    running,                  \* self.running
    stream,                   \* self.stream: "None" or "open"
    data_queue,               \* self.data_queue
    results_queue,            \* self.results_queue: every event put so far
    agc_gain,                 \* self.agc_gain
    threshold_percent,        \* self.threshold_percent
    last_trigger_index,       \* self.last_trigger_index
    total_processed_samples,  \* self.total_processed_samples
    last_tick_time,           \* self.last_tick_time
    intervals,                \* self.intervals
    session_intervals,        \* self.session_intervals
    task,                     \* the threads running _process_data: locals and position
    ui,                       \* the Tk thread: "idle", or "opening" inside start_stream
    calls,                    \* how often each bounded operation has run
    accepted,                 \* global indices of the ticks accepted since the last reset_data
    heard,                    \* a block with a non-zero sample went through AGC since the last reset_data
    stale                     \* blocks of data_queue put before the last start_stream

vars == <<running, stream, data_queue, results_queue, agc_gain, threshold_percent,
          last_trigger_index, total_processed_samples, last_tick_time, intervals,
          session_intervals, task, ui, calls, accepted, heard, stale>>

\* ProcessingState and the two histories
procState == <<agc_gain, last_trigger_index, total_processed_samples,
               last_tick_time, intervals, session_intervals>>

Tasks == 1..MaxTasks

\* a thread that has not been started, or has just re-entered its loop
Locals(pc) == [pc |-> pc, raw |-> NoBlock, todo |-> <<>>, thr |-> 0,
               global_idx |-> 0, delta |-> FZero,
               status |-> "", tps |-> 0]

Alive(t) == task[t].pc \notin {"unborn", "done", "crashed"}

Event(tag, data) == [tag |-> tag, data |-> data]

Put(queue, tag, data) == Append(queue, Event(tag, data))

(***************************************************************************)
(* __init__ (lines 23-48), reset_data included.                            *)
(***************************************************************************)
Init ==
    /\ running = FALSE
    /\ stream = "None"
    /\ data_queue = <<>>
    /\ results_queue = <<Event("RESET", ""), Event("LOG", "--- Session Reset ---")>>
    /\ agc_gain = GAIN_INITIAL
    /\ threshold_percent = 40
    /\ last_trigger_index = NO_TRIGGER
    /\ total_processed_samples = 0
    /\ last_tick_time = FZero
    /\ intervals = <<>>
    /\ session_intervals = <<>>
    /\ task = [t \in Tasks |-> Locals("unborn")]
    /\ ui = "idle"
    /\ calls = [control |-> 0, tasks |-> 0, blocks |-> 0]
    /\ accepted = <<>>
    /\ heard = FALSE
    /\ stale = 0

(***************************************************************************)
(* Control surface (Tk thread).                                            *)
(***************************************************************************)
\* reset_data, lines 50-58: the assignments hold no call, the two puts follow
ResetFields ==
    /\ last_tick_time' = FZero
    /\ intervals' = <<>>
    /\ session_intervals' = <<>>
    /\ agc_gain' = GAIN_INITIAL
    /\ total_processed_samples' = 0
    /\ last_trigger_index' = NO_TRIGGER
    /\ accepted' = <<>>
    /\ heard' = FALSE

\* the Reset button (line 231)
ResetData ==
    /\ ui = "idle"
    /\ calls.control < MaxControlCalls
    /\ calls' = [calls EXCEPT !.control = @ + 1]
    /\ ResetFields
    /\ results_queue' = Put(Put(results_queue, "RESET", ""), "LOG", "--- Session Reset ---")
    /\ UNCHANGED <<running, stream, data_queue, threshold_percent, task, ui, stale>>

\* start_stream while running: line 71 returns
StartWhileRunning ==
    /\ ui = "idle"
    /\ running
    /\ UNCHANGED vars

\* start_stream, lines 71-73, up to the call of self.p.open
StartStream ==
    /\ ui = "idle"
    /\ ~running
    /\ calls.control < MaxControlCalls
    /\ calls.tasks < MaxTasks
    /\ calls' = [calls EXCEPT !.control = @ + 1]
    /\ ResetFields
    /\ results_queue' = Put(Put(results_queue, "RESET", ""), "LOG", "--- Session Reset ---")
    /\ running' = TRUE
    /\ ui' = "opening"
    /\ stale' = Len(data_queue)
    /\ UNCHANGED <<stream, data_queue, threshold_percent, task>>

\* start_stream, lines 75-88: the audio source opens and the thread is started
StreamOpened ==
    /\ ui = "opening"
    /\ stream' = "open"
    /\ calls' = [calls EXCEPT !.tasks = @ + 1]
    /\ task' = [task EXCEPT ![calls.tasks + 1] = Locals("loop")]
    /\ results_queue' = Put(results_queue, "LOG", "Listening")
    /\ ui' = "idle"
    /\ UNCHANGED <<running, data_queue, procState, threshold_percent, accepted, heard, stale>>

\* start_stream, lines 80-83: self.p.open raises
StreamOpenError ==
    /\ ui = "opening"
    /\ running' = FALSE
    /\ results_queue' = Put(results_queue, "LOG", "Error opening stream")
    /\ ui' = "idle"
    /\ UNCHANGED <<stream, data_queue, procState, threshold_percent, task, calls, accepted, heard, stale>>

\* stop_stream, lines 90-95
StopStream ==
    /\ ui = "idle"
    /\ calls.control < MaxControlCalls
    /\ calls' = [calls EXCEPT !.control = @ + 1]
    /\ running' = FALSE
    /\ stream' = "None"
    /\ UNCHANGED <<data_queue, results_queue, procState, threshold_percent, task, ui, accepted, heard, stale>>

\* _set_thresh, lines 306-307
SetThresh(v) ==
    /\ ui = "idle"
    /\ v # threshold_percent
    /\ threshold_percent' = v
    /\ UNCHANGED <<running, stream, data_queue, results_queue, procState, task, ui,
                   calls, accepted, heard, stale>>

(***************************************************************************)
(* Capture callback (PortAudio thread), lines 97-100.                      *)
(***************************************************************************)
AudioCallback(block) ==
    /\ stream = "open"
    /\ running
    /\ calls.blocks < MaxBlocks
    /\ calls' = [calls EXCEPT !.blocks = @ + 1]
    /\ data_queue' = Append(data_queue, block)
    /\ UNCHANGED <<running, stream, results_queue, procState, threshold_percent,
                   task, ui, accepted, heard, stale>>

(***************************************************************************)
(* _analyze_intervals (lines 166-203): the guards of lines 167 and 175,    *)
(* the regression of lines 177-180, the choice of lines 182-183 and the    *)
(* event of line 197 with its bph and count (the rates and the beat error  *)
(* are left out).  The regression is computed exactly, on the intervals    *)
(* taken as whole numbers of samples: its slope is num / den samples.      *)
(***************************************************************************)
STANDARD_BPH == <<3600, 7200, 14400, 18000, 19800, 21600, 25200, 28800, 36000>>

\* x * SAMPLE_RATE below limb i of a magnitude, in units of limb i - 1
RECURSIVE SampleCarry(_, _)
SampleCarry(mag, i) ==
    IF i > Limbs THEN 0
    ELSE (mag[i] * SAMPLE_RATE + SampleCarry(mag, i + 1)) \div LimbBase

\* a non-negative interval in samples: x * SAMPLE_RATE, to the nearest integer
ToSamples(x) ==
    x.mag[1] * SAMPLE_RATE
        + (x.mag[2] * SAMPLE_RATE + SampleCarry(x.mag, 3) + LimbBase \div 2)
              \div LimbBase

RECURSIVE SeqSum(_)
SeqSum(seq) == IF seq = <<>> THEN 0 ELSE Head(seq) + SeqSum(Tail(seq))

\* lines 177-180: np.cumsum, np.arange and the slope of np.polyfit(x, y, 1),
\* the least-squares line through (k, y[k]), k = 0..n-1
Slope(valid_data) ==
    LET n   == Len(valid_data)
        y   == [k \in 0..(n - 1) |-> SeqSum(SubSeq(valid_data, 1, k + 1))]
        sx  == SeqSum([k \in 1..n |-> k - 1])
        sxx == SeqSum([k \in 1..n |-> (k - 1) * (k - 1)])
        sy  == SeqSum([k \in 1..n |-> y[k - 1]])
        sxy == SeqSum([k \in 1..n |-> (k - 1) * y[k - 1]])
    IN  [num |-> n * sxy - sx * sy, den |-> n * sxx - sx * sx]

\* abs(x - measured_bph) of line 183 for measured_bph = 3600 / slope, in
\* units of 100 / slope.num (every standard rate is a multiple of 100)
BphDist(x, slope) ==
    LET diff == (x \div 100) * slope.num - 36 * SAMPLE_RATE * slope.den
    IN  IF diff < 0 THEN -diff ELSE diff

\* line 183 with the later of two equally near rates taken
TargetBphLast(slope) ==
    STANDARD_BPH[CHOOSE i \in 1..Len(STANDARD_BPH) :
        /\ \A j \in 1..Len(STANDARD_BPH) :
               BphDist(STANDARD_BPH[i], slope) <= BphDist(STANDARD_BPH[j], slope)
        /\ \A j \in (i + 1)..Len(STANDARD_BPH) :
               BphDist(STANDARD_BPH[i], slope) < BphDist(STANDARD_BPH[j], slope)]

\* line 183: min(STANDARD_BPH, key=...) returns the first of the nearest
TargetBph(slope) ==
    STANDARD_BPH[CHOOSE i \in 1..Len(STANDARD_BPH) :
        /\ \A j \in 1..Len(STANDARD_BPH) :
               BphDist(STANDARD_BPH[i], slope) <= BphDist(STANDARD_BPH[j], slope)
        /\ \A j \in 1..(i - 1) :
               BphDist(STANDARD_BPH[i], slope) < BphDist(STANDARD_BPH[j], slope)]

\* lines 167-203 with the test of line 175 left out and nothing discarded
AnalyzeIntervalsUnsettled(queue, session) ==
    IF Len(session) < 5 THEN queue
    ELSE Put(queue, "STATS",
             [bph   |-> TargetBph(Slope([i \in 1..Len(session) |->
                                             ToSamples(session[i])])),
              count |-> Len(session)])

AnalyzeIntervals(queue, session) ==
    IF Len(session) < 5 THEN queue
    ELSE LET valid_data == SubSeq(session, 3, Len(session))
         IN  IF Len(valid_data) < 5 THEN queue
             ELSE Put(queue, "STATS",
                      [bph   |-> TargetBph(Slope([i \in 1..Len(valid_data) |->
                                                      ToSamples(valid_data[i])])),
                       count |-> Len(valid_data)])

(***************************************************************************)
(* _process_data (lines 102-164), one thread t.                            *)
(***************************************************************************)
Goto(t, pc) == task' = [task EXCEPT ![t].pc = pc]

\* lines 106-109: while self.running, then data_queue.get(timeout=1); with
\* nothing queued the wait ends in queue.Empty and the test is made again
ProcLoop(t) ==
    /\ task[t].pc = "loop"
    /\ IF ~running
       THEN /\ task' = [task EXCEPT ![t] = Locals("done")]
            /\ UNCHANGED <<data_queue, stale>>
       ELSE IF data_queue # <<>>
       THEN /\ task' = [task EXCEPT ![t] = [Locals("agc") EXCEPT !.raw = Head(data_queue)]]
            /\ data_queue' = Tail(data_queue)
            /\ stale' = IF stale > 0 THEN stale - 1 ELSE 0
       ELSE UNCHANGED <<task, data_queue, stale>>
    /\ UNCHANGED <<running, stream, results_queue, procState, threshold_percent,
                   ui, calls, accepted, heard>>

\* line 112 on an empty block: np.max raises ValueError, nothing catches it
\* and the thread ends
ProcRaise(t) ==
    /\ task[t].pc = "agc"
    /\ task[t].raw.len = 0
    /\ Goto(t, "crashed")
    /\ UNCHANGED <<running, stream, data_queue, results_queue, procState,
                   threshold_percent, ui, calls, accepted, heard, stale>>

\* lines 112-125: gain update, filtering, smoothing, threshold.  `todo` keeps
\* the offsets whose smoothed sample is above the threshold, in loop order:
\* the loop of line 127 does nothing at any other offset.
ProcAgc(t) ==
    /\ task[t].pc = "agc"
    /\ task[t].raw.len > 0
    /\ agc_gain' = AgcUpdate(agc_gain, ChunkMax(task[t].raw))
    /\ heard' = (heard \/ task[t].raw.vals # {0})
    /\ \E smoothed \in Envelopes(task[t].raw) :
         task' = [task EXCEPT
                    ![t].pc = "scan",
                    ![t].thr = threshold_percent,
                    ![t].todo = SortedSeq({o \in EnvOffsets :
                                    AboveThreshold(smoothed[o], threshold_percent)})]
    /\ UNCHANGED <<running, stream, data_queue, results_queue, threshold_percent,
                   last_trigger_index, total_processed_samples, last_tick_time,
                   intervals, session_intervals, ui, calls, accepted, stale>>

\* lines 127-136 at the next offset above the threshold (or the end of the
\* loop): lockout test, trigger and the TICK event
ProcScan(t) ==
    /\ task[t].pc = "scan"
    /\ IF task[t].todo = <<>>
       THEN /\ Goto(t, "advance")
            /\ UNCHANGED <<results_queue, last_trigger_index, accepted>>
       ELSE LET global_idx == total_processed_samples + Head(task[t].todo)
            IN  IF LockedOut(global_idx, last_trigger_index)
                THEN /\ task' = [task EXCEPT ![t].todo = Tail(@)]
                     /\ UNCHANGED <<results_queue, last_trigger_index, accepted>>
                ELSE /\ last_trigger_index' = global_idx
                     /\ results_queue' = Put(results_queue, "TICK", "")
                     /\ accepted' = Append(accepted, global_idx)
                     /\ task' = [task EXCEPT ![t].pc = "classify",
                                             ![t].global_idx = global_idx]
    /\ UNCHANGED <<running, stream, data_queue, agc_gain, threshold_percent,
                   total_processed_samples, last_tick_time, intervals,
                   session_intervals, ui, calls, heard, stale>>

\* line 138: global_idx / SAMPLE_RATE
CurrentTime(global_idx) == FDiv(global_idx, SAMPLE_RATE)

\* lines 138-147, or lines 138-140 and 155 when there is no earlier tick
\* (current_time is kept as the global_idx it is computed from)
ProcClassify(t) ==
    /\ task[t].pc = "classify"
    /\ LET current_time == CurrentTime(task[t].global_idx)
       IN  IF FLess(FZero, last_tick_time)
           THEN LET delta == FSub(current_time, last_tick_time)
                    status == Classify(delta)
                IN  /\ results_queue' = Put(results_queue, "LOG", status)
                    /\ task' = [task EXCEPT
                                  ![t].pc = IF status = "OK" THEN "append" ELSE "set_tick",
                                  ![t].delta = delta,
                                  ![t].status = status]
                    /\ UNCHANGED last_tick_time
           ELSE /\ last_tick_time' = current_time
                /\ task' = [task EXCEPT ![t].pc = "scan", ![t].todo = Tail(@)]
                /\ UNCHANGED results_queue
    /\ UNCHANGED <<running, stream, data_queue, agc_gain, threshold_percent,
                   last_trigger_index, total_processed_samples, intervals,
                   session_intervals, ui, calls, accepted, heard, stale>>

\* lines 149-150
ProcAppend(t) ==
    /\ task[t].pc = "append"
    /\ intervals' = Append(intervals, task[t].delta)
    /\ Goto(t, "append_session")
    /\ UNCHANGED <<running, stream, data_queue, results_queue, agc_gain,
                   threshold_percent, last_trigger_index, total_processed_samples,
                   last_tick_time, session_intervals, ui, calls, accepted, heard, stale>>

\* line 151
ProcAppendSession(t) ==
    /\ task[t].pc = "append_session"
    /\ session_intervals' = Append(session_intervals, task[t].delta)
    /\ Goto(t, "analyze")
    /\ UNCHANGED <<running, stream, data_queue, results_queue, agc_gain,
                   threshold_percent, last_trigger_index, total_processed_samples,
                   last_tick_time, intervals, ui, calls, accepted, heard, stale>>

\* lines 152-153
ProcAnalyze(t) ==
    /\ task[t].pc = "analyze"
    /\ intervals' = IF Len(intervals) > 10 THEN Tail(intervals) ELSE intervals
    /\ results_queue' = AnalyzeIntervals(results_queue, session_intervals)
    /\ Goto(t, "set_tick")
    /\ UNCHANGED <<running, stream, data_queue, agc_gain, threshold_percent,
                   last_trigger_index, total_processed_samples, last_tick_time,
                   session_intervals, ui, calls, accepted, heard, stale>>

\* line 155
ProcSetTick(t) ==
    /\ task[t].pc = "set_tick"
    /\ last_tick_time' = CurrentTime(task[t].global_idx)
    /\ task' = [task EXCEPT ![t].pc = "scan", ![t].todo = Tail(@)]
    /\ UNCHANGED <<running, stream, data_queue, results_queue, agc_gain,
                   threshold_percent, last_trigger_index, total_processed_samples,
                   intervals, session_intervals, ui, calls, accepted, heard, stale>>

\* line 157, the load of self.total_processed_samples (len() is called next)
ProcAdvanceLoad(t) ==
    /\ task[t].pc = "advance"
    /\ task' = [task EXCEPT ![t].pc = "advance_store",
                            ![t].tps = total_processed_samples]
    /\ UNCHANGED <<running, stream, data_queue, results_queue, procState,
                   threshold_percent, ui, calls, accepted, heard, stale>>

\* line 157, the store, and lines 159-164
ProcAdvanceStore(t) ==
    /\ task[t].pc = "advance_store"
    /\ total_processed_samples' = task[t].tps + task[t].raw.len
    /\ results_queue' = IF Len(data_queue) < 2
                        THEN Put(results_queue, "WAVEFORM",
                                 [threshold |-> task[t].thr, gain |-> agc_gain])
                        ELSE results_queue
    /\ Goto(t, "loop")
    /\ UNCHANGED <<running, stream, data_queue, agc_gain, threshold_percent,
                   last_trigger_index, last_tick_time, intervals,
                   session_intervals, ui, calls, accepted, heard, stale>>

Proc(t) ==
    \/ ProcLoop(t)
    \/ ProcRaise(t)
    \/ ProcAgc(t)
    \/ ProcScan(t)
    \/ ProcClassify(t)
    \/ ProcAppend(t)
    \/ ProcAppendSession(t)
    \/ ProcAnalyze(t)
    \/ ProcSetTick(t)
    \/ ProcAdvanceLoad(t)
    \/ ProcAdvanceStore(t)

Control ==
    \/ ResetData
    \/ StartWhileRunning
    \/ StartStream
    \/ StreamOpened
    \/ StreamOpenError
    \/ StopStream
    \/ \E v \in ThreshValues : SetThresh(v)

Next ==
    \/ Control
    \/ \E block \in Blocks : AudioCallback(block)
    \/ \E t \in Tasks : Proc(t)

Spec == Init /\ [][Next]_vars
(***************************************************************************)
(* The classifier on its own: the thread stands at line 138 with the tick  *)
(* at g1 + d just accepted and the first tick of the session, at g1,       *)
(* behind it (the WAVEFORM events of the blocks in between are left out of *)
(* results_queue).  The steps are the thread's own, lines 138-155.         *)
(***************************************************************************)
FirstTicks == (1800..1850) \cup (88200..88250)
Distances == {3968, 3969, 3970, 97019, 97020, 97021}

InitClassify ==
    \E g1 \in FirstTicks, d \in Distances :
        LET g2 == g1 + d
            offset == g2 % CHUNK_SIZE
        IN  /\ running = TRUE
            /\ stream = "open"
            /\ data_queue = <<>>
            /\ results_queue = <<Event("RESET", ""), Event("LOG", "--- Session Reset ---"),
                                 Event("LOG", "Listening"), Event("TICK", ""),
                                 Event("TICK", "")>>
            /\ agc_gain = GAIN_MAX
            /\ threshold_percent = 40
            /\ last_trigger_index = g2
            /\ total_processed_samples = g2 - offset
            /\ last_tick_time = CurrentTime(g1)
            /\ intervals = <<>>
            /\ session_intervals = <<>>
            /\ task = [t \in Tasks |->
                         IF t = 1
                         THEN [Locals("classify") EXCEPT
                                 !.raw = [len |-> CHUNK_SIZE, vals |-> {INT16_MIN, 1}],
                                 !.todo = <<offset>>,
                                 !.thr = 40,
                                 !.global_idx = g2]
                         ELSE Locals("unborn")]
            /\ ui = "idle"
            /\ calls = [control |-> 1, tasks |-> 1, blocks |-> MaxBlocks]
            /\ accepted = <<g1, g2>>
            /\ heard = TRUE
            /\ stale = 0

NextClassify ==
    \E t \in Tasks :
        \/ ProcClassify(t)
        \/ ProcAppend(t)
        \/ ProcAppendSession(t)
        \/ ProcAnalyze(t)
        \/ ProcSetTick(t)

SpecClassify == InitClassify /\ [][NextClassify]_vars

(***************************************************************************)
(* The rate estimator on its own: the thread stands at line 138 with a     *)
(* tick just accepted, behind it a session of Len(h) recorded intervals    *)
(* (h in samples; the events of that session are left out of               *)
(* results_queue).  The steps are the thread's own, lines 138-155, and the *)
(* Reset button.                                                           *)
(***************************************************************************)
MaxHistory == 10
SessionDistances == {4900, 5880}
TieDistances == {4000, 4899, 4900, 4901, 5879, 5880, 5881, 8400, 9800, 14700,
                 29400, 44100, 97000}
NewDistances == {3000, 4900, 5880}

Histories ==
    {[i \in 1..n |-> IF i <= k THEN a ELSE b] :
         n \in 0..MaxHistory, k \in 0..MaxHistory,
         a \in SessionDistances, b \in SessionDistances}
    \cup {[i \in 1..6 |-> d] : d \in TieDistances}

\* the sample index of tick number k (from 0) of a session with history h
TickAt(h, k) == 1 + SeqSum(SubSeq(h, 1, k))

InitSession ==
    \E h \in Histories, d \in NewDistances :
        LET n == Len(h)
            g2 == TickAt(h, n) + d
            offset == g2 % CHUNK_SIZE
            session == [k \in 1..n |->
                           FSub(CurrentTime(TickAt(h, k)), CurrentTime(TickAt(h, k - 1)))]
        IN  /\ running = TRUE
            /\ stream = "open"
            /\ data_queue = <<>>
            /\ results_queue = <<Event("RESET", ""), Event("LOG", "--- Session Reset ---"),
                                 Event("LOG", "Listening"), Event("TICK", "")>>
            /\ agc_gain = GAIN_MAX
            /\ threshold_percent = 40
            /\ last_trigger_index = g2
            /\ total_processed_samples = g2 - offset
            /\ last_tick_time = CurrentTime(TickAt(h, n))
            /\ intervals = SubSeq(session, Max({1, n - 9}), n)
            /\ session_intervals = session
            /\ task = [t \in Tasks |->
                         IF t = 1
                         THEN [Locals("classify") EXCEPT
                                 !.raw = [len |-> CHUNK_SIZE, vals |-> {INT16_MIN, 1}],
                                 !.todo = <<offset>>,
                                 !.thr = 40,
                                 !.global_idx = g2]
                         ELSE Locals("unborn")]
            /\ ui = "idle"
            /\ calls = [control |-> MaxControlCalls - 1, tasks |-> 1, blocks |-> MaxBlocks]
            /\ accepted = [k \in 1..(n + 2) |-> IF k = n + 2 THEN g2 ELSE TickAt(h, k - 1)]
            /\ heard = TRUE
            /\ stale = 0

NextSession ==
    \/ ResetData
    \/ \E t \in Tasks :
        \/ ProcClassify(t)
        \/ ProcAppend(t)
        \/ ProcAppendSession(t)
        \/ ProcAnalyze(t)
        \/ ProcSetTick(t)

SpecSession == InitSession /\ [][NextSession]_vars

(***************************************************************************)
(* Properties.                                                             *)
(***************************************************************************)
\* C1: any two ticks accepted since the last reset lie at least
\* LOCKOUT_SAMPLES (3528) samples apart, whichever blocks they fall in.
LockoutRespected ==
    \A i, j \in 1..Len(accepted) :
        i # j => \/ accepted[i] - accepted[j] >= LOCKOUT_SAMPLES
                 \/ accepted[j] - accepted[i] >= LOCKOUT_SAMPLES

\* two ticks of one session, the first in the first block and the second in
\* a later block
TwoTicksAcrossBlocks ==
    /\ Len(accepted) = 2
    /\ accepted[1] < CHUNK_SIZE
    /\ accepted[2] >= CHUNK_SIZE

AtMostOneTask == Cardinality({t \in Tasks : Alive(t)}) <= 1

\* C4: while a thread running _process_data is alive, a step that changes
\* ProcessingState or a history is a step of such a thread.
OnlyTaskWritesState ==
    [][((\E t \in Tasks : Alive(t)) /\ procState' # procState)
           => \E t \in Tasks : task'[t] # task[t]]_vars

\* C5: the stream is closed (self.stream is None) only when no thread
\* running _process_data is alive.
ClosedOnlyAfterExit == stream = "None" => \A t \in Tasks : ~Alive(t)

\* C6: no thread running _process_data is ever ended by an error raised
\* while it processes a block.
ErrorNeverEndsTask == \A t \in Tasks : task[t].pc # "crashed"

\* C7: running is false when self.p.open fails inside start_stream, and
\* false after it.
RunningStaysFalse == [][StreamOpenError => (~running /\ ~running')]_vars

\* the classification of lines 143-145 on the distance in samples: NOISE
\* below 0.09 s, MISSED above 2.2 s
ExactStatus(samples) ==
    IF samples * 100 < 9 * SAMPLE_RATE THEN "NOISE"
    ELSE IF samples * 10 > 22 * SAMPLE_RATE THEN "MISSED"
    ELSE "OK"

\* C8: a tick is classified NOISE iff it lies less than 0.09 s after the
\* tick before it, MISSED iff more than 2.2 s, and OK otherwise: 3969
\* samples (0.09 s) and 97020 samples (2.2 s) are OK.
ClassifierExact ==
    \A t \in Tasks :
        (task[t].pc \in {"append", "set_tick"} /\ Len(accepted) >= 2)
            => task[t].status =
                   ExactStatus(accepted[Len(accepted)] - accepted[Len(accepted) - 1])

InRange(x) == ~x.neg /\ ~FLess(x, NOISE_BELOW) /\ ~FLess(MISSED_ABOVE, x)

LastReset(queue) == Max({i \in 1..Len(queue) : queue[i].tag = "RESET"})

IntervalRecords(queue) ==
    Cardinality({i \in (LastReset(queue) + 1)..Len(queue) :
                    /\ queue[i].tag = "LOG"
                    /\ queue[i].data \in {"OK", "NOISE", "MISSED"}})

\* C10: in a run of one start_stream and no other control call, once every
\* accepted tick has passed line 147 there is one interval record for every
\* accepted tick but the first.
EveryLaterTickRecorded ==
    (calls.control = 1 /\ \A t \in Tasks : task[t].pc # "classify")
        => IntervalRecords(results_queue) =
               IF accepted = <<>> THEN 0 ELSE Len(accepted) - 1
\* the events a step appends to results_queue
NewEvents == SubSeq(results_queue', Len(results_queue) + 1, Len(results_queue'))

\* a step of thread t through lines 152-153, the rate estimator included
AnalyzeStep(t) == task[t].pc = "analyze" /\ task'[t].pc = "set_tick"

BphNearestStandard ==
    [][\A t \in Tasks :
           (AnalyzeStep(t) /\ Len(NewEvents) = 1 /\ NewEvents[1].tag = "STATS")
               => LET valid_data == SubSeq(session_intervals, 3, Len(session_intervals))
                      slope == Slope([i \in 1..Len(valid_data) |->
                                         ToSamples(valid_data[i])])
                      bph == NewEvents[1].data.bph
                      Standard == {STANDARD_BPH[i] : i \in 1..Len(STANDARD_BPH)}
                  IN  /\ bph \in Standard
                      /\ \A x \in Standard :
                             /\ BphDist(bph, slope) <= BphDist(x, slope)
                             /\ BphDist(bph, slope) = BphDist(x, slope) => bph <= x
      ]_vars

\* a session of intervals of 5880 samples, 27000 beats per hour, as far from
\* 25200 as from 28800: the lower rate was reported
TieReportedLow ==
    /\ Len(session_intervals) = 7
    /\ \A i \in 1..7 : ToSamples(session_intervals[i]) = 5880
    /\ results_queue[Len(results_queue)].tag = "STATS"
    /\ results_queue[Len(results_queue)].data.bph = 25200

\* C12: within the processing of one block, a thread puts every TICK event
\* before its first LOG (and so before any STATS) event of that block.
TicksBeforeLogs ==
    [][\A t \in Tasks :
           (task[t].pc = "scan" /\ task'[t].pc = "classify") => task[t].status = ""
      ]_vars

\* C13: total_processed_samples goes down only by a reset, and the step that
\* ends the processing of a block adds that block's length to it.
SamplesCountedOnce ==
    [][/\ total_processed_samples' < total_processed_samples
            => (total_processed_samples' = 0 /\ calls'.control = calls.control + 1)
       /\ \A t \in Tasks :
              (task[t].pc = "advance_store" /\ task'[t].pc = "loop")
                  => total_processed_samples' =
                         total_processed_samples + task[t].raw.len
      ]_vars

\* C14: every delta a thread has computed (line 141) is greater than 0.
DeltaPositive ==
    \A t \in Tasks : task[t].status # "" => FLess(FZero, task[t].delta)

\* C15: when no thread stands between lines 150 and 153, the rolling window
\* has at most 10 entries and is the last min(10, n) entries of the n
\* entries of the session history, in order.
WindowIsRecentHistory ==
    (\A t \in Tasks : task[t].pc \notin {"append_session", "analyze"})
        => /\ Len(intervals) <= 10
           /\ Len(intervals) <= Len(session_intervals)
           /\ intervals = SubSeq(session_intervals,
                                 Len(session_intervals) - Len(intervals) + 1,
                                 Len(session_intervals))
           /\ Len(intervals) = IF Len(session_intervals) < 10
                               THEN Len(session_intervals) ELSE 10

\* no sample other than 0 has gone through line 112 since the last reset,
\* and none is in a block a thread holds
Quiet ==
    /\ ~heard
    /\ \A t \in Tasks : Alive(t) => task[t].raw.vals \subseteq {0}

\* C16: while every block processed since the last reset is all-zero, no
\* step puts a TICK or a STATS event and the gain is and stays 50.0, at any
\* position of the threshold slider.
SilenceIsSilent ==
    [][Quiet => /\ agc_gain = GAIN_INITIAL
                /\ agc_gain' = GAIN_INITIAL
                /\ \A i \in 1..Len(NewEvents) :
                       NewEvents[i].tag \notin {"TICK", "STATS"}
      ]_vars

\* an all-zero block has been processed to its end, with the slider at 5, in
\* a session that had no other block
SilentBlockProcessed ==
    /\ Quiet
    /\ calls.control = 1
    /\ results_queue[Len(results_queue)].tag = "WAVEFORM"
    /\ results_queue[Len(results_queue)].data.threshold = 5

\* C18: the step of lines 112-116 updates the gain with the largest absolute
\* sample value of the block, -32768 counting as 32768.
ChunkMaxIsLargestAbs ==
    [][\A t \in Tasks :
           (task[t].pc = "agc" /\ task'[t].pc = "scan")
               => agc_gain' =
                      AgcUpdate(agc_gain,
                                Max({IF x < 0 THEN -x ELSE x : x \in task[t].raw.vals}))
      ]_vars

\* C19: every interval of the session history is the distance between two
\* ticks accepted since the last reset.
IntervalsSinceReset ==
    \A i \in 1..Len(session_intervals) :
        \E a, b \in 1..Len(accepted) :
            /\ a < b
            /\ session_intervals[i] =
                   FSub(CurrentTime(accepted[b]), CurrentTime(accepted[a]))

\* C20: a thread takes a block from data_queue only when no block put
\* before the last start_stream is left in it.
NoStaleBlockConsumed ==
    [][\A t \in Tasks :
           (task[t].pc = "loop" /\ task'[t].pc = "agc") => stale = 0
      ]_vars

====
